---- MODULE Spec2Model ----
(***************************************************************************)
(* Model of the selection engine of mercian-selector:                      *)
(*   domain/filters.py   (Tier Gate, Hard Filter)                          *)
(*   domain/fallbacks.py (Fallback Ladder)                                 *)
(*   domain/scoring.py   (Scorer, rank)                                    *)
(*   app.py              (recommend: probability, P1/P2/wildcard)          *)
(*   domain/adapters.py  (WildcardAdapter)                                 *)
(*                                                                         *)
(* Numbers.  Python floats are modelled as exact fixed-point integers:     *)
(*   skill      in tenths            (6.5  -> 65)                          *)
(*   price      in whole currency units, budget likewise                   *)
(*   length     in 1/10000 inch       (36.5 -> 365000)                     *)
(*   score      in millionths         (0.35 -> 350000)                     *)
(* An optional value (None, or a blank spreadsheet cell, which pandas      *)
(* reads as NaN) is a sequence of length 0; a present value v is <<v>>.    *)
(* Text that the code inspects character by character (Description,        *)
(* Product Code) is a sequence of one-character strings.                   *)
(***************************************************************************)
EXTENDS Integers, Sequences, FiniteSets, TLC

VARIABLES
    pc,         \* position of the modelled call
    journey,    \* argument of allowed_tiers_for (first call)
    journey2,   \* argument of allowed_tiers_for (second call, tier specification)
    allowed,    \* allowed_tiers_for(journey)
    allowed2,   \* allowed_tiers_for(journey2)
    sheet,      \* the rows of the spreadsheet that load_dataset() reads
    df,         \* the catalog frame (app.py global df), a sequence of rows
    columns,    \* the column labels of the catalog frame
    profile,    \* the buyer profile
    hard,       \* result of apply_hard_filters
    snap,       \* history: the frame that apply_hard_filters read in this request
    results,    \* apply_fallbacks: local results
    reasons,    \* apply_fallbacks: local reasons
    counters,   \* apply_fallbacks: local counters
    tried,      \* history: the ladder steps whose query was evaluated
    info,       \* apply_fallbacks: returned diagnostics
    ranked,     \* recommend: ranked frame (with Score, then Prob)
    rng,        \* recommend: denominator of Prob
    slate,      \* recommend: p1, p2, wildcard of the selection block
    response,   \* recommend: the JSON payload that is returned
    log_file,   \* logs/selector_log.csv: absent, or its lines
    log_calls   \* history: the number of calls of log_event that returned

vars == <<pc, journey, journey2, allowed, allowed2, sheet, df, columns, profile, hard, snap,
          results,
          reasons, counters, tried, info, ranked, rng, slate, response, log_file, log_calls>>

\* ------------------------------------------------------------------------
\* Generic helpers
\* ------------------------------------------------------------------------

None == <<>>

Some(v) == <<v>>

IsNone(x) == Len(x) = 0

Val(x) == x[1]

Abs(x) == IF x < 0 THEN -x ELSE x

Max2(a, b) == IF a >= b THEN a ELSE b

Min2(a, b) == IF a <= b THEN a ELSE b

Range(s) == {s[i] : i \in 1..Len(s)}

Head3(s) == IF Len(s) <= 3 THEN s ELSE SubSeq(s, 1, 3)

\* ------------------------------------------------------------------------
\* domain/filters.py : Tier Gate
\* ------------------------------------------------------------------------

TIER_ORDER == <<"Genesis", "Evolution", "Intermediate", "Performance", "Elite">>

\* str.strip().lower() on the label strings of the model
StripLower(s) ==
    CASE s \in {"Genesis", "genesis", " GENESIS "} -> "genesis"
      [] s \in {"Evolution", "evolution", "EVOLUTION"} -> "evolution"
      [] s \in {"Intermediate", "intermediate"} -> "intermediate"
      [] s \in {"Performance", " performance"} -> "performance"
      [] s \in {"Elite", "elite", " ELITE "} -> "elite"
      [] s = "" -> ""
      [] s = "   " -> ""
      [] OTHER -> s

\* The journey argument: a number (in tenths) or a string
Num(x) == [kind |-> "num", num |-> x, str |-> ""]

Str(t) == [kind |-> "str", num |-> 0, str |-> t]

\* a journey that is neither a number nor a string: None, or a list
NoneArg == [kind |-> "none", num |-> 0, str |-> ""]

ListArg == [kind |-> "list", num |-> 0, str |-> ""]

\* A Python float: a finite value (in tenths), nan or inf
Fin(v) == [kind |-> "fin", v |-> v]

NaN == [kind |-> "nan", v |-> 0]

Inf == [kind |-> "inf", v |-> 0]

\* s <= c for a float s and a finite c: False for nan and for inf
FLe(s, c) == s.kind = "fin" /\ s.v <= c

\* float(journey): a number is itself; a string that float() accepts parses
\* to its value ("nan" and "inf" are accepted); anything else raises and the
\* except branch sets s = 0.0
ParseFloat(j) ==
    CASE j.kind = "num" -> Fin(j.num)
      [] j.kind = "str" /\ j.str = "7" -> Fin(70)
      [] j.kind = "str" /\ j.str = " 9.5 " -> Fin(95)
      [] j.kind = "str" /\ j.str = "nan" -> NaN
      [] j.kind = "str" /\ j.str = "inf" -> Inf
      [] OTHER -> Fin(0)

BandLow == <<"Genesis">>

BandEvo == <<"Genesis", "Evolution">>

BandMid == <<"Evolution", "Intermediate", "Performance">>

\* mutant: the middle band loses its lowest tier
NumericBandMut(s) ==
    IF FLe(s, 30) THEN BandLow
    ELSE IF FLe(s, 60) THEN BandEvo
    ELSE IF FLe(s, 80) THEN <<"Intermediate", "Performance">>
    ELSE TIER_ORDER

NumericBand(s) ==
    IF FLe(s, 30) THEN BandLow
    ELSE IF FLe(s, 60) THEN BandEvo
    ELSE IF FLe(s, 80) THEN BandMid
    ELSE TIER_ORDER

\* mutant: the label "performance" is not recognized
allowed_tiers_forMut(j) ==
    LET lbl == IF j.kind = "str" THEN StripLower(j.str) ELSE ""
    IN  IF j.kind = "str" /\ lbl = "genesis" THEN BandLow
        ELSE IF j.kind = "str" /\ lbl = "evolution" THEN BandEvo
        ELSE IF j.kind = "str" /\ lbl = "intermediate" THEN BandMid
        ELSE IF j.kind = "str" /\ lbl = "elite" THEN TIER_ORDER
        ELSE NumericBand(ParseFloat(j))

allowed_tiers_for(j) ==
    LET lbl == IF j.kind = "str" THEN StripLower(j.str) ELSE ""
    IN  IF j.kind = "str" /\ lbl = "genesis" THEN BandLow
        ELSE IF j.kind = "str" /\ lbl = "evolution" THEN BandEvo
        ELSE IF j.kind = "str" /\ lbl \in {"intermediate", "performance"} THEN BandMid
        ELSE IF j.kind = "str" /\ lbl = "elite" THEN TIER_ORDER
        ELSE NumericBand(ParseFloat(j))

\* ------------------------------------------------------------------------
\* Rows of the catalog frame
\* ------------------------------------------------------------------------

\* str.lower() on the player-type strings of the model
Lower(s) ==
    CASE s \in {"Outdoor Player", "OUTDOOR PLAYER", "outdoor player"} -> "outdoor player"
      [] s \in {"Indoor Player", "indoor player"} -> "indoor player"
      [] OTHER -> s

\* the column labels of the spreadsheet
AllColumns ==
    {"Product Code", "Player Type", "Playing Level", "Full Price", "Length", "Bow",
     "Carbon", "Description", "Power", "Touch and Control", "Aerial", "Drag Flicking"}

\* A blank cell of a text column is read as NaN: it equals no string and is
\* a member of no list of strings. The model writes it as a text that occurs
\* nowhere else.
BlankText == "NaN"

Row(code, ptype, tier, price, length, bow, carbon, desc, power, touch, aerial, dragf) ==
    [Code |-> code, PlayerType |-> ptype, PlayingLevel |-> tier, FullPrice |-> price,
     Length |-> length, Bow |-> bow, Carbon |-> carbon, Description |-> desc,
     Power |-> power, Touch |-> touch, Aerial |-> aerial, DragFlicking |-> dragf]

\* ------------------------------------------------------------------------
\* domain/filters.py : Hard Filter
\* ------------------------------------------------------------------------

\* numpy.isclose(a, b, atol=atol) with the default rtol = 1e-05:
\*     |a - b| <= atol + rtol * |b|
\* a is a cell of the Length column (NaN is close to nothing), b the target.
\* Lengths are integers, so the bound is atol + floor(|b| / 100000).
IsClose(a, b, atol) ==
    /\ ~IsNone(a)
    /\ Abs(Val(a) - b) <= atol + (Abs(b) \div 100000)

tier_sanity(f, cols) ==
    IF "Playing Level" \in cols
    THEN SelectSeq(f, LAMBDA r : r.PlayingLevel \in Range(TIER_ORDER))
    ELSE f

\* df[df["Playing Level"].isin(allowed)], for a frame that has the column
apply_tier_gate(f, allow) == SelectSeq(f, LAMBDA r : r.PlayingLevel \in Range(allow))

\* df["Playing Level"] raises KeyError on a frame without the column
apply_tier_gate_raises(cols) == "Playing Level" \notin cols

\* mutant: the price ceiling is exclusive
HardPriceOkMut(r, prof) ==
    prof.budget = 0 \/ (~IsNone(r.FullPrice) /\ 100 * Val(r.FullPrice) < 105 * prof.budget)

\* "Full Price" <= 1.05 * budget, applied when budget is non-zero; a blank
\* price is NaN and NaN <= x is False
HardPriceOk(r, prof) ==
    prof.budget = 0 \/ (~IsNone(r.FullPrice) /\ 100 * Val(r.FullPrice) <= 105 * prof.budget)

HardLengthOk(r, prof) == IsNone(prof.length) \/ IsClose(r.Length, Val(prof.length), 5000)

HardPlayerOk(r, prof) == prof.player_type = "" \/ Lower(r.PlayerType) = Lower(prof.player_type)

\* the frame returned for a frame f with the columns cols, when
\* apply_tier_gate does not raise
apply_hard_filters(f, cols, prof, allow) ==
    LET r1 == apply_tier_gate(tier_sanity(f, cols), allow)
        r2 == IF "Playing Level" \in cols
              THEN SelectSeq(r1, LAMBDA r : r.PlayingLevel \in Range(allow))
              ELSE r1
        r3 == IF "Full Price" \in cols
              THEN SelectSeq(r2, LAMBDA r : HardPriceOk(r, prof))
              ELSE r2
        r4 == IF "Length" \in cols
              THEN SelectSeq(r3, LAMBDA r : HardLengthOk(r, prof))
              ELSE r3
    IN  IF "Player Type" \in cols
        THEN SelectSeq(r4, LAMBDA r : HardPlayerOk(r, prof))
        ELSE r4

\* ------------------------------------------------------------------------
\* domain/fallbacks.py : Fallback Ladder
\* ------------------------------------------------------------------------

\* cap100 is 100 x the cap argument of the code (budget * 1.10 -> budget * 110)
_cap_budget(f, prof, allowed_tiers, cap100, length_atol) ==
    LET q(r) == /\ Lower(r.PlayerType) = Lower(prof.player_type)
                /\ r.PlayingLevel \in Range(allowed_tiers)
                /\ (IsNone(prof.length) \/ IsClose(r.Length, Val(prof.length), length_atol))
        tmp == SelectSeq(f, q)
    IN  IF prof.budget # 0
        THEN SelectSeq(tmp, LAMBDA r : ~IsNone(r.FullPrice) /\ 100 * Val(r.FullPrice) <= cap100)
        ELSE tmp

Cap100(prof, pct) == IF prof.budget # 0 THEN prof.budget * pct ELSE 0

\* the order of sort_values on "Full Price": ascending, NaN last
PriceLe(a, b) ==
    IsNone(b.FullPrice) \/ (~IsNone(a.FullPrice) /\ Val(a.FullPrice) <= Val(b.FullPrice))

\* DataFrame.sort_values("Full Price"): rows in ascending price order, rows of
\* equal price in their frame order
RECURSIVE InsertByPrice(_, _)
InsertByPrice(x, s) ==
    IF s = <<>> THEN <<x>>
    ELSE IF PriceLe(Head(s), x) THEN <<Head(s)>> \o InsertByPrice(x, Tail(s))
    ELSE <<x>> \o s

RECURSIVE SortByPrice(_)
SortByPrice(s) ==
    IF s = <<>> THEN <<>>
    ELSE InsertByPrice(s[Len(s)], SortByPrice(SubSeq(s, 1, Len(s) - 1)))

ZeroCounters == [budget_relax |-> 0, length_relax |-> 0, tier_relax |-> 0, final_cheapest |-> 0]

\* The locals of apply_fallbacks after "results = initial"
FbStart(initial) ==
    [results |-> initial, reasons |-> <<>>, counters |-> ZeroCounters, tried |-> {}]

\* if results.empty: 1.10 x budget, length 0.5
FbStep1(st, f, prof, allowed_tiers) ==
    IF st.results # <<>> THEN st
    ELSE LET res == _cap_budget(f, prof, allowed_tiers, Cap100(prof, 110), 5000)
         IN  IF res # <<>>
             THEN [st EXCEPT !.results = res,
                             !.counters.budget_relax = @ + 1,
                             !.reasons = Append(@, "budget(+10%)"),
                             !.tried = @ \cup {<<1, Len(res)>>}]
             ELSE [st EXCEPT !.results = res, !.tried = @ \cup {<<1, Len(res)>>}]

\* mutant: the second step is not guarded by "if results.empty"
FbStep2Mut(st, f, prof, allowed_tiers) ==
    LET res == _cap_budget(f, prof, allowed_tiers, Cap100(prof, 120), 5000)
    IN  IF res # <<>>
        THEN [st EXCEPT !.results = res,
                        !.counters.budget_relax = @ + 1,
                        !.reasons = Append(@, "budget(+20%)"),
                        !.tried = @ \cup {<<2, Len(res)>>}]
        ELSE [st EXCEPT !.tried = @ \cup {<<2, Len(res)>>}]

\* if results.empty: 1.20 x budget, length 0.5
FbStep2(st, f, prof, allowed_tiers) ==
    IF st.results # <<>> THEN st
    ELSE LET res == _cap_budget(f, prof, allowed_tiers, Cap100(prof, 120), 5000)
         IN  IF res # <<>>
             THEN [st EXCEPT !.results = res,
                             !.counters.budget_relax = @ + 1,
                             !.reasons = Append(@, "budget(+20%)"),
                             !.tried = @ \cup {<<2, Len(res)>>}]
             ELSE [st EXCEPT !.results = res, !.tried = @ \cup {<<2, Len(res)>>}]

\* if results.empty: 1.20 x budget, length 1.0
FbStep3(st, f, prof, allowed_tiers) ==
    IF st.results # <<>> THEN st
    ELSE LET tmp == _cap_budget(f, prof, allowed_tiers, Cap100(prof, 120), 10000)
         IN  IF tmp # <<>>
             THEN [st EXCEPT !.results = tmp,
                             !.counters.length_relax = @ + 1,
                             !.reasons = Append(@, "length(+-1.0)"),
                             !.tried = @ \cup {<<3, Len(tmp)>>}]
             ELSE [st EXCEPT !.tried = @ \cup {<<3, Len(tmp)>>}]

\* TIER_ORDER.index(t)
TierIndex(t) == CHOOSE i \in 1..Len(TIER_ORDER) : TIER_ORDER[i] = t

SetMax(S) == CHOOSE m \in S : \A x \in S : x <= m

\* TIER_ORDER[:min(len(TIER_ORDER), allowed_idx + 2)], allowed_idx 0-based
HigherTiers(allowed_tiers) ==
    LET allowed_idx == IF allowed_tiers # <<>>
                       THEN SetMax({TierIndex(t) : t \in Range(allowed_tiers)}) - 1
                       ELSE 0
    IN  SubSeq(TIER_ORDER, 1, Min2(Len(TIER_ORDER), allowed_idx + 2))

\* mutant: the tier step leaves no token and no counter
FbStep4Mut(st, f, prof, allowed_tiers) ==
    IF st.results # <<>> THEN st
    ELSE LET tmp == _cap_budget(f, prof, HigherTiers(allowed_tiers), Cap100(prof, 120), 10000)
         IN  IF tmp # <<>>
             THEN [st EXCEPT !.results = tmp, !.tried = @ \cup {<<4, Len(tmp)>>}]
             ELSE [st EXCEPT !.tried = @ \cup {<<4, Len(tmp)>>}]

\* if results.empty: tiers opened upward, 1.20 x budget, length 1.0
FbStep4(st, f, prof, allowed_tiers) ==
    IF st.results # <<>> THEN st
    ELSE LET tmp == _cap_budget(f, prof, HigherTiers(allowed_tiers), Cap100(prof, 120), 10000)
         IN  IF tmp # <<>>
             THEN [st EXCEPT !.results = tmp,
                             !.counters.tier_relax = @ + 1,
                             !.reasons = Append(@, "tiers(^1 step)"),
                             !.tried = @ \cup {<<4, Len(tmp)>>}]
             ELSE [st EXCEPT !.tried = @ \cup {<<4, Len(tmp)>>}]

\* mutant: the final fallback compares the player type case-sensitively
FinalCheapestMut(f, prof) ==
    Head3(SortByPrice(SelectSeq(f, LAMBDA r : r.PlayerType = prof.player_type)))

\* mutant: the final fallback takes the first three rows in frame order
FinalCheapestNoSortMut(f, prof) ==
    Head3(SelectSeq(f, LAMBDA r : Lower(r.PlayerType) = Lower(prof.player_type)))

\* df[player type matches].sort_values("Full Price").head(3)
FinalCheapest(f, prof) ==
    Head3(SortByPrice(SelectSeq(f, LAMBDA r : Lower(r.PlayerType) = Lower(prof.player_type))))

\* mutant: the final step records its token and counter only when it found rows
FbStep5Mut(st, f, prof, allowed_tiers) ==
    IF st.results # <<>> THEN st
    ELSE LET res == FinalCheapest(f, prof)
         IN  IF res # <<>>
             THEN [st EXCEPT !.results = res,
                             !.counters.final_cheapest = Len(res),
                             !.reasons = Append(@, "final_cheapest(3)"),
                             !.tried = @ \cup {<<5, Len(res)>>}]
             ELSE [st EXCEPT !.results = res, !.tried = @ \cup {<<5, Len(res)>>}]

\* if results.empty: the three cheapest rows of the player's type
FbStep5(st, f, prof, allowed_tiers) ==
    IF st.results # <<>> THEN st
    ELSE LET res == FinalCheapest(f, prof)
         IN  [st EXCEPT !.results = res,
                        !.counters.final_cheapest = Len(res),
                        !.reasons = Append(@, "final_cheapest(3)"),
                        !.tried = @ \cup {<<5, Len(res)>>}]

\* mutant: the diagnostics are returned whether or not a step fired
FbInfoMut(st) == Some([relaxed |-> st.reasons, counters |-> st.counters])

\* info = {"relaxed": reasons, "counters": counters} if reasons else {}
FbInfo(st) ==
    IF st.reasons # <<>> THEN Some([relaxed |-> st.reasons, counters |-> st.counters]) ELSE None

\* apply_fallbacks as a function: (results, info)
apply_fallbacks(f, initial, prof, allowed_tiers) ==
    LET s1 == FbStep1(FbStart(initial), f, prof, allowed_tiers)
        s2 == FbStep2(s1, f, prof, allowed_tiers)
        s3 == FbStep3(s2, f, prof, allowed_tiers)
        s4 == FbStep4(s3, f, prof, allowed_tiers)
        s5 == FbStep5(s4, f, prof, allowed_tiers)
    IN  [results |-> s5.results, info |-> FbInfo(s5)]

\* ------------------------------------------------------------------------
\* domain/scoring.py : Scorer
\* ------------------------------------------------------------------------

\* str.strip().lower() on the Bow strings of the model
LowerBow(b) ==
    CASE b \in {"Standard", "standard"} -> "standard"
      [] b = "Standard Bend" -> "standard bend"
      [] b \in {"DSH", "dsh"} -> "dsh"
      [] b \in {"Xtreme", "xtreme"} -> "xtreme"
      [] b \in {"Ultimate V2", "ultimate v2"} -> "ultimate v2"
      [] b \in {"Ultimate", "ultimate"} -> "ultimate"
      [] b \in {"Pro", "pro"} -> "pro"
      [] b \in {"Mid", "mid"} -> "mid"
      [] OTHER -> b

\* the bow family of a raw Bow value (scoring.py 25-32, app.py 234-238)
bow_fam(bow_raw) ==
    LET b == LowerBow(bow_raw)
    IN  IF b \in {"standard", "standard bend"} THEN "mid"
        ELSE IF b = "dsh" THEN "xtreme"
        ELSE b

\* floor of the square root, by bisection on lo..hi
RECURSIVE ISqrtIn(_, _, _)
ISqrtIn(n, lo, hi) ==
    IF lo >= hi THEN lo
    ELSE LET mid == (lo + hi + 1) \div 2
         IN  IF mid * mid <= n THEN ISqrtIn(n, mid, hi) ELSE ISqrtIn(n, lo, mid - 1)

\* mutant: the price ratio is not clamped to 1
AffordabilityMut(price, budget) ==
    IF budget = 0 \/ price = 0 THEN 0
    ELSE LET u == Max2(0, (1000 * price) \div budget)
         IN  350 * ISqrtIn((u * u * u) \div 1000, 0, 2000)

\* 0.35 * u ** 1.5 with u = clamp(price / budget, 0, 1), in millionths;
\* u is taken in thousandths and u ** 1.5 rounded down to thousandths
Affordability(price, budget) ==
    IF budget = 0 \/ price = 0 THEN 0
    ELSE LET u == Max2(0, Min2(1000, (1000 * price) \div budget))
         IN  350 * ISqrtIn((u * u * u) \div 1000, 0, 1000)

\* _norm01(x, 0, 10) in tenths, for an attribute 0..10
Norm01(x) == Max2(0, Min2(10, x))

PositionIn(order, x) == CHOOSE i \in 1..Len(order) : order[i] = x

\* (len(order) - order.index(bow_fam)) / len(order) in fifths; 0 off the list
RankBias(order, fam) ==
    IF fam \in Range(order) THEN Len(order) - (PositionIn(order, fam) - 1) ELSE 0

\* mutant: the first two families of the aerial order are swapped
AerialOrderMut == <<"ultimate", "ultimate v2", "xtreme", "pro", "mid">>

AerialOrder == <<"ultimate v2", "ultimate", "xtreme", "pro", "mid">>

DragflickOrder == <<"xtreme", "ultimate v2", "ultimate", "pro", "mid">>

PreferableBows == {"standard", "pro", "ultimate", "ultimate v2", "xtreme", "dsh", "znake", "mid"}

\* max(0, (importance - 7) / 3) in thirds
Intensity(importance) == Max2(0, importance - 7)

score_row(row, prof) ==
    LET bow_raw == LowerBow(row.Bow)
        fam == bow_fam(row.Bow)
        preferred_bow == LowerBow(prof.preferred_bow)
        prefer_bow == preferred_bow \in PreferableBows
        jl == prof.journey
        price == IF IsNone(row.FullPrice) THEN 0 ELSE Val(row.FullPrice)
        afford == Affordability(price, prof.budget)
        minspec == IF jl = "Elite" /\ row.Carbon < 70 THEN -600000
                   ELSE IF jl = "Evolution" /\ row.Carbon < 40 THEN -300000
                   ELSE 0
        pref == IF prefer_bow /\ bow_raw = preferred_bow THEN 150000 ELSE 0
        ai == Intensity(prof.aerials)
        aer == IF ai > 0
               THEN 8000 * ai * RankBias(AerialOrder, fam) + 4000 * ai * Norm01(row.Aerial)
               ELSE 0
        di == Intensity(prof.dragflick)
        drg == IF di > 0
               THEN 8000 * di * RankBias(DragflickOrder, fam) + 4000 * di * Norm01(row.DragFlicking)
               ELSE 0
        bal == IF prof.priority = "Power" THEN 8000 * Norm01(row.Power)
               ELSE IF prof.priority = "Touch and Control" THEN 8000 * Norm01(row.Touch)
               ELSE 4000 * Norm01(row.Power) + 4000 * Norm01(row.Touch)
    IN  afford + minspec + pref + aer + drg + bal

\* mutant: rows of equal score are ordered by descending price
RankBeforeMut(a, b) ==
    \/ a.Score > b.Score
    \/ a.Score = b.Score /\ ~PriceLe(a.row, b.row)

\* the sort key of sort_values(["Score", "Full Price"], ascending=[False, True])
RankBefore(a, b) ==
    \/ a.Score > b.Score
    \/ a.Score = b.Score /\ ~PriceLe(b.row, a.row)

\* rows that compare equal on the key keep their frame order
RECURSIVE InsertRanked(_, _)
InsertRanked(x, s) ==
    IF s = <<>> THEN <<x>>
    ELSE IF RankBefore(x, Head(s)) THEN <<x>> \o s
    ELSE <<Head(s)>> \o InsertRanked(x, Tail(s))

RECURSIVE SortRanked(_)
SortRanked(s) ==
    IF s = <<>> THEN <<>>
    ELSE InsertRanked(s[Len(s)], SortRanked(SubSeq(s, 1, Len(s) - 1)))

rank(f, prof) ==
    SortRanked([i \in 1..Len(f) |-> [row |-> f[i], Score |-> score_row(f[i], prof)]])

\* ------------------------------------------------------------------------
\* app.py : recommend, selection block
\* ------------------------------------------------------------------------

\* str.upper() on one character
UpperChar(c) ==
    CASE c = "a" -> "A" [] c = "b" -> "B" [] c = "c" -> "C" [] c = "d" -> "D"
      [] c = "e" -> "E" [] c = "k" -> "K" [] c = "o" -> "O" [] c = "p" -> "P"
      [] c = "r" -> "R" [] c = "s" -> "S" [] c = "v" -> "V" [] c = "x" -> "X"
      [] OTHER -> c

Upper(t) == [i \in 1..Len(t) |-> UpperChar(t[i])]

\* pat in t, for sequences of characters
Contains(t, pat) ==
    \E i \in 1..(Len(t) - Len(pat) + 1) : SubSeq(t, i, i + Len(pat) - 1) = pat

is_solid_core(row) ==
    LET desc == Upper(row.Description)
        code == Upper(row.Code)
    IN  \/ Contains(desc, <<" ", "S", "C">>)
        \/ Contains(desc, <<"S", "C", " ">>)
        \/ Contains(code, <<" ", "C", "K">>)
        \/ (Contains(code, <<"C", "K">>) /\ Contains(code, <<"S", "C">>))

\* Two dicts made by Series.to_dict() compare equal when every value compares
\* equal. A NaN cell of a float column is boxed into a fresh float on every
\* to_dict() call and NaN != NaN, so a dict holding one equals no dict.
DictEq(a, b) == a = b /\ ~IsNone(a.row.Length)

\* first element of s that satisfies P, in frame order
FirstWhere(s, P(_)) ==
    LET I == {i \in 1..Len(s) : P(s[i])}
    IN  IF I = {} THEN None ELSE Some(s[CHOOSE i \in I : \A j \in I : i <= j])

\* ranked["Prob"] = (ranked["Score"] - smin) / rng: the numerator; rng is
\* kept beside it as the common denominator
ScoreMin(rk) == CHOOSE m \in {rk[i].Score : i \in 1..Len(rk)} : \A i \in 1..Len(rk) : m <= rk[i].Score

ScoreMax(rk) == CHOOSE m \in {rk[i].Score : i \in 1..Len(rk)} : \A i \in 1..Len(rk) : m >= rk[i].Score

\* 1.0 in millionths
One == 1000000

ProbRng(rk) == IF ScoreMax(rk) > ScoreMin(rk) THEN ScoreMax(rk) - ScoreMin(rk) ELSE One

WithProb(rk) ==
    [i \in 1..Len(rk) |-> [row |-> rk[i].row, Score |-> rk[i].Score,
                           Prob |-> rk[i].Score - ScoreMin(rk)]]

\* prob >= max(0.0, top_prob - tol), tol in hundredths, probabilities over den
NearTop(prob, top_prob, tol100, den) == 100 * prob >= Max2(0, 100 * top_prob - tol100 * den)

\* mutant: the aerial override does not look at the drag-flick intensity
PickP1Mut(rk, prof) ==
    LET di == Intensity(prof.dragflick)
        ai == Intensity(prof.aerials)
        top == rk[1]
        p1_df == FirstWhere(rk, LAMBDA r : bow_fam(r.row.Bow) = "xtreme")
        a == IF di > 0 /\ ~IsNone(p1_df) THEN Val(p1_df) ELSE top
        p1_ar == FirstWhere(rk, LAMBDA r : bow_fam(r.row.Bow) = "ultimate v2")
    IN  IF ai > 0 /\ ~IsNone(p1_ar) THEN Val(p1_ar) ELSE a

\* P1: top row, then the drag-flick and aerial overrides (app.py 256-267)
PickP1(rk, prof) ==
    LET di == Intensity(prof.dragflick)
        ai == Intensity(prof.aerials)
        top == rk[1]
        p1_df == FirstWhere(rk, LAMBDA r : bow_fam(r.row.Bow) = "xtreme")
        a == IF di > 0 /\ ~IsNone(p1_df) THEN Val(p1_df) ELSE top
        p1_ar == FirstWhere(rk, LAMBDA r : bow_fam(r.row.Bow) = "ultimate v2")
    IN  IF ai > 0 /\ di = 0 /\ ~IsNone(p1_ar) THEN Val(p1_ar) ELSE a

\* mutant: only another bow family counts as contrast
PickP2BowOnlyMut(rk, prof, p1, den) ==
    LET di == Intensity(prof.dragflick)
        top_bow == bow_fam(p1.row.Bow)
        near(r) == NearTop(r.Prob, p1.Prob, 10, den)
        special(r) == /\ di > 0 /\ prof.budget # 0
                      /\ bow_fam(r.row.Bow) = "ultimate v2" /\ is_solid_core(r.row) /\ near(r)
        general(r) == near(r) /\ bow_fam(r.row.Bow) # top_bow
        scan == FirstWhere(rk, LAMBDA r : ~DictEq(r, p1) /\ (special(r) \/ general(r)))
    IN  IF ~IsNone(scan) THEN scan
        ELSE IF Len(rk) > 1 THEN FirstWhere(Tail(rk), LAMBDA r : ~DictEq(r, p1))
        ELSE None

\* mutant: no fallback to the next-best row
PickP2NoFallbackMut(rk, prof, p1, den) ==
    LET di == Intensity(prof.dragflick)
        top_bow == bow_fam(p1.row.Bow)
        near(r) == NearTop(r.Prob, p1.Prob, 10, den)
        special(r) == /\ di > 0 /\ prof.budget # 0
                      /\ bow_fam(r.row.Bow) = "ultimate v2" /\ is_solid_core(r.row) /\ near(r)
        general(r) == /\ near(r)
                      /\ (bow_fam(r.row.Bow) # top_bow \/ Abs(r.row.Carbon - p1.row.Carbon) >= 10)
    IN  FirstWhere(rk, LAMBDA r : ~DictEq(r, p1) /\ (special(r) \/ general(r)))

\* P2: the scan of app.py 270-291 and the fallback of 293-298
PickP2(rk, prof, p1, den) ==
    LET di == Intensity(prof.dragflick)
        top_bow == bow_fam(p1.row.Bow)
        near(r) == NearTop(r.Prob, p1.Prob, 10, den)
        special(r) == /\ di > 0 /\ prof.budget # 0
                      /\ bow_fam(r.row.Bow) = "ultimate v2" /\ is_solid_core(r.row) /\ near(r)
        general(r) == /\ near(r)
                      /\ (bow_fam(r.row.Bow) # top_bow \/ Abs(r.row.Carbon - p1.row.Carbon) >= 10)
        scan == FirstWhere(rk, LAMBDA r : ~DictEq(r, p1) /\ (special(r) \/ general(r)))
    IN  IF ~IsNone(scan) THEN scan
        ELSE IF Len(rk) > 1 THEN FirstWhere(Tail(rk), LAMBDA r : ~DictEq(r, p1))
        ELSE None

\* mutant: the wildcard scan forgets the bow families already used
PickWildcardMut(rk, prof, p1, p2, den) ==
    IF Len(rk) > 2
    THEN FirstWhere(rk, LAMBDA r :
             /\ ~(DictEq(r, p1) \/ (~IsNone(p2) /\ DictEq(r, Val(p2))))
             /\ NearTop(r.Prob, p1.Prob, 15, den)
             /\ ~is_solid_core(r.row))
    ELSE None

\* the wildcard of the selection block (app.py 300-312)
PickWildcard(rk, prof, p1, p2, den) ==
    IF Len(rk) > 2
    THEN LET used_bows == {bow_fam(p1.row.Bow)} \cup
                          (IF IsNone(p2) THEN {} ELSE {bow_fam(Val(p2).row.Bow)})
         IN  FirstWhere(rk, LAMBDA r :
                 /\ ~(DictEq(r, p1) \/ (~IsNone(p2) /\ DictEq(r, Val(p2))))
                 /\ NearTop(r.Prob, p1.Prob, 15, den)
                 /\ bow_fam(r.row.Bow) \notin used_bows
                 /\ ~is_solid_core(r.row))
    ELSE None

EmptySlate == [p1 |-> None, p2 |-> None, wildcard |-> None]

\* the selection block: rk is the ranked frame with Prob
SelectSlate(rk, prof, den) ==
    IF rk = <<>> THEN EmptySlate
    ELSE LET p1 == PickP1(rk, prof)
             p2 == PickP2(rk, prof, p1, den)
         IN  [p1 |-> Some(p1), p2 |-> p2, wildcard |-> PickWildcard(rk, prof, p1, p2, den)]

\* primaries_list = [p1] + ([p2] if p2 else [])
Primaries(sl) == sl.p1 \o sl.p2

\* ------------------------------------------------------------------------
\* domain/adapters.py : WildcardAdapter.get
\* ------------------------------------------------------------------------

WildcardAdapterGet(rk, primaries, prof) ==
    LET primary_codes == {primaries[i].row.Code : i \in 1..Len(primaries)}
        price_ok(r) == \/ prof.budget = 0
                       \/ ~IsNone(r.row.FullPrice) /\ 100 * Val(r.row.FullPrice) <= 120 * prof.budget
        differs(r) == \/ primaries = <<>>
                      \/ r.row.Bow # primaries[1].row.Bow
                      \/ r.row.Carbon # primaries[1].row.Carbon
    IN  FirstWhere(rk, LAMBDA r : r.row.Code \notin primary_codes /\ price_ok(r) /\ differs(r))

\* ------------------------------------------------------------------------
\* domain/logger.py : log_event
\* ------------------------------------------------------------------------

FIELDNAMES ==
    <<"timestamp", "journey", "player_type", "budget", "fallbacks", "adapter_latency_ms",
      "response_time_ms", "status", "rationale_summary", "primaries", "wildcard">>

\* datetime.utcnow() as text; the clock is not modelled, every row carries
\* the same stamp
UtcNow == "utcnow"

\* a line of the CSV file: the header line, or the row written for an event
HeaderLine == [kind |-> "header", cells |-> [f \in Range(FIELDNAMES) |-> f]]

RowLine(event) ==
    [kind |-> "row",
     cells |-> [f \in Range(FIELDNAMES) |-> IF f = "timestamp" THEN UtcNow ELSE event[f]]]

\* The file is opened in append mode (which creates it); writeheader() and
\* writerow() are both inside "if not file_exists", so a call on an existing
\* file appends nothing.
log_event(file, event) ==
    IF IsNone(file) THEN Some(<<HeaderLine, RowLine(event)>>)
    ELSE file

\* ", ".join(texts) on sequences of characters
RECURSIVE Join(_)
Join(texts) ==
    IF texts = <<>> THEN <<>>
    ELSE IF Len(texts) = 1 THEN texts[1]
    ELSE texts[1] \o <<",", " ">> \o Join(Tail(texts))

\* the event that recommend logs (app.py 448-469); the rationale is not
\* modelled, its two fields are empty
EventOf(prof, inf, pay) ==
    [journey |-> prof.journey,
     player_type |-> prof.player_type,
     budget |-> prof.budget,
     fallbacks |-> inf,
     adapter_latency_ms |-> None,
     response_time_ms |-> None,
     status |-> IF pay.ok THEN "ok" ELSE "error",
     rationale_summary |-> <<>>,
     primaries |-> Join([i \in 1..Len(pay.primaries) |-> pay.primaries[i].row.Description]),
     wildcard |-> IF IsNone(pay.wildcard) THEN <<"N", "o", "n", "e">>
                  ELSE Val(pay.wildcard).row.Description]

\* ------------------------------------------------------------------------
\* app.py : recommend, profile derivation and the stages as one function
\* ------------------------------------------------------------------------

\* journey label from the numeric skill (app.py 182-188), skill in tenths
JourneyOf(skill) ==
    IF skill <= 30 THEN "Genesis" ELSE IF skill <= 70 THEN "Evolution" ELSE "Elite"

\* PLAYER_TYPE_MAP.get(category, "Outdoor Player")
PlayerTypeOf(category) ==
    CASE category = "outdoor player" -> "Outdoor Player"
      [] category = "outdoor goalkeeper" -> "Outdoor Goalkeeper"
      [] category = "indoor player" -> "Indoor Player"
      [] category = "indoor goalkeeper" -> "Indoor Goalkeeper"
      [] OTHER -> "Outdoor Player"

\* PRIORITY_MAP.get(priority.lower(), "Both")
PriorityOf(priority) ==
    CASE priority \in {"touch", "Touch"} -> "Touch and Control"
      [] priority \in {"power", "Power"} -> "Power"
      [] priority \in {"both", "Both"} -> "Both"
      [] priority = "unknown" -> "Not Sure"
      [] OTHER -> "Both"

\* float(profile["length"]) or None on failure, in 1/10000 inch
ParseLength(t) ==
    CASE t = "36.5" -> Some(365000)
      [] t = "37.5" -> Some(375000)
      [] OTHER -> None

DeriveProfile(pl) ==
    [skill |-> pl.skill, budget |-> pl.budget, dragflick |-> pl.dragflick,
     aerials |-> pl.aerials, category |-> pl.category, bow |-> pl.bow,
     journey |-> JourneyOf(pl.skill),
     player_type |-> PlayerTypeOf(pl.category),
     preferred_bow |-> pl.bow,
     priority |-> PriorityOf(pl.priority),
     length |-> ParseLength(pl.length)]

\* rank(results).reset_index, then the exact-length narrowing (app.py 218-224)
RankAndNarrow(res, prof) ==
    LET rk == rank(res, prof)
        exact == IF ~IsNone(prof.length) /\ Val(prof.length) # 0
                 THEN SelectSeq(rk, LAMBDA r : r.row.Length = prof.length)
                 ELSE <<>>
    IN  IF exact # <<>> THEN exact ELSE rk

\* wildcard_src: the selection block's wildcard, else the adapter's
WildcardSrc(rk, sl, prof) ==
    IF ~IsNone(sl.wildcard) THEN sl.wildcard
    ELSE WildcardAdapterGet(rk, Primaries(sl), prof)

NoSticks == [ok |-> FALSE, error |-> "No sticks matched your criteria"]

Payload(rk, sl, prof, inf) ==
    [ok |-> TRUE, primaries |-> Primaries(sl), wildcard |-> WildcardSrc(rk, sl, prof),
     fallback |-> inf]

\* the response of recommend for the frame held at the start of the request
\* (old), the frame reloaded from the sheet (new) and the derived profile
RecommendFrom(old, new, prof) ==
    IF old = <<>> THEN NoSticks
    ELSE LET allow == allowed_tiers_for(Str(prof.journey))
             hd == apply_hard_filters(new, AllColumns, prof, allow)
             fb == apply_fallbacks(new, hd, prof, allow)
             rk0 == RankAndNarrow(fb.results, prof)
             rk == WithProb(rk0)
             den == IF rk0 = <<>> THEN 0 ELSE ProbRng(rk0)
             sl == SelectSlate(rk, prof, den)
         IN  Payload(rk, sl, prof, fb.info)

\* ------------------------------------------------------------------------
\* Bounds and input universes
\* ------------------------------------------------------------------------

\* rows per catalog in the filter / ladder specification
MaxRowsF == 2

\* rows per catalog in the request specification
MaxRowsS == 3

\* granularity of the skills tried by the tier specification, in tenths
SkillStep == 5

\* skill runs over 0..10
MaxSkill == 100

SeqsUpTo(S, n) == UNION {[1..k -> S] : k \in 0..n}

Skills == {x \in 0..MaxSkill : x % SkillStep = 0}

JourneyInputs ==
    {Num(x) : x \in Skills} \cup
    {Str(t) : t \in {"Genesis", "evolution", "Intermediate", " performance", " ELITE "}} \cup
    {Str(t) : t \in {"Evolution", "Elite"}} \cup
    {Str(t) : t \in {"junior", "", "7", "nan", "inf"}} \cup
    {NoneArg, ListArg}

FRow(c, pt, tier, price, length) ==
    Row(<<c>>, pt, tier, Some(price), length, "Standard", 50, <<"E", "v", "o">>, 5, 5, 5, 5)

UniverseF ==
    { FRow("a", "Outdoor Player", "Genesis", 190, Some(365000)),
      FRow("b", "Outdoor Player", "Genesis", 210, Some(370000)),
      FRow("c", "Outdoor Player", "Evolution", 215, Some(365000)),
      FRow("d", "OUTDOOR PLAYER", "Genesis", 235, Some(365000)),
      FRow("e", "Outdoor Player", "Genesis", 190, Some(370003)),
      FRow("f", "Outdoor Player", "Genesis", 235, Some(375000)),
      FRow("g", "Outdoor Player", "Intermediate", 190, Some(365000)),
      FRow("h", "Outdoor Player", "Elite", 190, Some(380000)),
      FRow("i", "Outdoor Player", "Genesis", 300, None),
      FRow("j", "Indoor Player", "Genesis", 150, Some(365000)),
      FRow("k", "Outdoor Player", "Junior", 100, Some(365000)),
      FRow("l", "Indoor Player", "Evolution", 260, Some(375000)),
      FRow("q", "Outdoor Player", "Genesis", 215, Some(370003)) }

ProfilesF ==
    [budget : {0, 200}, length : {None, Some(365000)},
     player_type : {"Outdoor Player", "indoor player"}]

Bands == {BandLow, BandEvo, BandMid, TIER_ORDER}

SRow(c, pt, price, length, bow, carbon, desc) ==
    Row(c, pt, "Genesis", Some(price), length, bow, carbon, desc, 5, 5, 5, 5)

UniverseS ==
    { SRow(<<"A", "1">>, "Outdoor Player", 180, Some(365000), "Standard", 50, <<"E", "v", "o">>),
      SRow(<<"A", "2">>, "Outdoor Player", 180, Some(365000), "Standard", 50, <<"E", "v", "o">>),
      SRow(<<"S", "7">>, "Outdoor Player", 180, Some(365000), "Standard", 70, <<"E", "v", "o">>),
      SRow(<<"U", "1">>, "Outdoor Player", 200, None, "Ultimate V2", 90, <<"U", "v", " ", "s", "c">>),
      SRow(<<"X", "1">>, "Outdoor Player", 190, Some(370000), "DSH", 70, <<"D", "s", "h">>),
      SRow(<<"P", "1">>, "Outdoor Player", 150, Some(375000), "Pro", 50, <<"P", "r", "o">>),
      SRow(<<"I", "1">>, "Indoor Player", 100, Some(365000), "Standard", 50, <<"E", "v", "o">>) }

Payloads ==
    [skill : {20, 90}, budget : {0, 200}, dragflick : {7, 9}, aerials : {7, 9},
     category : {"outdoor player"}, priority : {"both"}, bow : {""},
     length : {"", "36.5"}]

\* rows per catalog in the final-fallback specification
MaxRowsG == 4

\* rows that no step before the final fallback returns for the profiles of
\* ProfilesG with a budget and a target length: tier out of reach, price
\* above 1.20 x budget, or length more than 1.0 from the target
UniverseG ==
    { FRow("r", "Outdoor Player", "Elite", 300, Some(365000)),
      FRow("s", "Outdoor Player", "Genesis", 250, Some(365000)),
      FRow("t", "OUTDOOR PLAYER", "Genesis", 100, Some(390000)),
      [FRow("u", "Outdoor Player", "Elite", 0, Some(365000)) EXCEPT !.FullPrice = None],
      FRow("v", "Indoor Player", "Elite", 50, Some(365000)) }

ProfilesG ==
    [budget : {0, 200}, length : {Some(365000)}, player_type : {"Outdoor Player"}]

\* rows per catalog in the slate specification
MaxRowsP == 3

\* rows for the P2 rules: two Standard rows alike but for the code, a Standard
\* row 10 carbon points away, solid-core and plain Ultimate V2 rows (one with
\* a blank Length), a DSH row
UniverseP ==
    { SRow(<<"A", "1">>, "Outdoor Player", 180, Some(365000), "Standard", 50, <<"E", "v", "o">>),
      SRow(<<"A", "2">>, "Outdoor Player", 180, Some(365000), "Standard", 50, <<"E", "v", "o">>),
      SRow(<<"S", "6">>, "Outdoor Player", 180, Some(365000), "Standard", 60, <<"E", "v", "o">>),
      SRow(<<"U", "1">>, "Outdoor Player", 200, Some(365000), "Ultimate V2", 90, <<"U", "v", " ", "s", "c">>),
      SRow(<<"U", "2">>, "Outdoor Player", 200, Some(365000), "Ultimate V2", 90, <<"U", "v">>),
      SRow(<<"U", "3">>, "Outdoor Player", 200, None, "Ultimate V2", 90, <<"U", "v", " ", "s", "c">>),
      SRow(<<"X", "1">>, "Outdoor Player", 190, Some(365000), "DSH", 70, <<"D", "s", "h">>) }

PayloadsP == {p \in Payloads : p.skill = 20 /\ p.length = ""}

\* rows per frame in the scorer specification
MaxRowsR == 2

RRow(price, bow) ==
    Row(<<"R">>, "Outdoor Player", "Genesis", price, Some(365000), bow, 50, <<"E", "v", "o">>,
        5, 5, 5, 5)

\* one row in six prices (blank, 0, below, at and above a budget of 200) and
\* in nine bows
UniverseR ==
    {RRow(pr, "Standard") : pr \in {None, Some(0), Some(100), Some(190), Some(200), Some(210)}}
    \cup
    {RRow(Some(190), b) : b \in {"Standard Bend", "DSH", "Xtreme", "Ultimate V2", "Ultimate",
                                  "Pro", "Mid", "Znake"}}

\* the profile fields score_row reads
ProfilesR ==
    [journey : {"Genesis"}, budget : {0, 200}, aerials : {7, 9}, dragflick : {7, 9},
     priority : {"Both"}, preferred_bow : {"", "mid", "standard", "xtreme", "dsh"}]

\* rows per catalog in the missing-data specification
MaxRowsC == 2

\* rows with a blank Length, Player Type, Full Price or Playing Level cell,
\* beside complete rows
UniverseC ==
    { FRow("a", "Outdoor Player", "Genesis", 190, Some(365000)),
      FRow("b", "Outdoor Player", "Genesis", 210, Some(370000)),
      FRow("d", "OUTDOOR PLAYER", "Genesis", 235, Some(365000)),
      FRow("j", "Indoor Player", "Genesis", 150, Some(365000)),
      FRow("m", "Outdoor Player", "Genesis", 190, None),
      FRow("n", BlankText, "Genesis", 190, Some(365000)),
      [FRow("o", "Outdoor Player", "Genesis", 190, Some(365000)) EXCEPT !.FullPrice = None],
      FRow("p", "Outdoor Player", BlankText, 190, Some(365000)) }

\* frames with every column, or with one of the four filtered columns absent
ColumnSets ==
    {AllColumns} \cup
    {AllColumns \ {c} : c \in {"Length", "Player Type", "Full Price", "Playing Level"}}

\* rows per catalog in the concurrent specification
MaxRowsK == 2

UniverseK ==
    { SRow(<<"A", "1">>, "Outdoor Player", 180, Some(365000), "Standard", 50, <<"E", "v", "o">>),
      SRow(<<"X", "1">>, "Outdoor Player", 190, Some(365000), "DSH", 70, <<"D", "s", "h">>),
      SRow(<<"I", "1">>, "Indoor Player", 100, Some(365000), "Standard", 50, <<"E", "v", "o">>) }

PayloadsK == {p \in Payloads : p.skill = 20 /\ p.dragflick = 7 /\ p.aerials = 7}

\* calls of log_event in the logger specification
MaxCalls == 3

Events ==
    [journey : {"Genesis", "Evolution", "Elite"},
     player_type : {"Outdoor Player", "Indoor Player"},
     budget : {0, 200},
     fallbacks : {None},
     adapter_latency_ms : {None},
     response_time_ms : {None},
     status : {"ok", "error"},
     rationale_summary : {<<>>},
     primaries : {<<>>, <<"E", "v", "o">>},
     wildcard : {<<"N", "o", "n", "e">>, <<"P", "r", "o">>}]

\* the log file before a request: absent, or left by an earlier request
LogFiles ==
    {None,
     Some(<<HeaderLine,
            RowLine([journey |-> "Genesis", player_type |-> "Outdoor Player", budget |-> 0,
                     fallbacks |-> None, adapter_latency_ms |-> None,
                     response_time_ms |-> None, status |-> "ok",
                     rationale_summary |-> <<>>, primaries |-> <<"E", "v", "o">>,
                     wildcard |-> <<"N", "o", "n", "e">>])>>)}

Idle == <<>>

\* ------------------------------------------------------------------------
\* Tier specification: two calls of allowed_tiers_for
\* ------------------------------------------------------------------------

InitTier ==
    /\ pc = "tier"
    /\ journey \in JourneyInputs
    /\ journey2 \in JourneyInputs
    /\ allowed = Idle /\ allowed2 = Idle
    /\ sheet = Idle /\ df = Idle /\ columns = {} /\ snap = Idle /\ profile = Idle /\ hard = Idle
    /\ results = Idle /\ reasons = Idle /\ counters = Idle /\ tried = {}
    /\ info = Idle /\ ranked = Idle /\ rng = 0 /\ slate = Idle /\ response = Idle
    /\ log_file = None /\ log_calls = 0

TierGate ==
    /\ pc = "tier"
    /\ allowed' = allowed_tiers_for(journey)
    /\ allowed2' = allowed_tiers_for(journey2)
    /\ pc' = "tier_done"
    /\ UNCHANGED <<journey, journey2, log_file, log_calls, sheet, columns, snap, df, profile, hard, results, reasons,
                   counters, tried, info, ranked, rng, slate, response>>

NextTier == TierGate

SpecTier == InitTier /\ [][NextTier]_vars

\* ------------------------------------------------------------------------
\* Ladder specification: apply_hard_filters, then apply_fallbacks step by step
\* ------------------------------------------------------------------------

InitLadder ==
    /\ pc = "hard"
    /\ journey = Idle /\ journey2 = Idle /\ allowed2 = Idle
    /\ allowed \in Bands
    /\ df \in SeqsUpTo(UniverseF, MaxRowsF)
    /\ sheet = df
    /\ columns = AllColumns /\ snap = Idle
    /\ profile \in ProfilesF
    /\ hard = Idle
    /\ results = Idle /\ reasons = Idle /\ counters = Idle /\ tried = {}
    /\ info = Idle /\ ranked = Idle /\ rng = 0 /\ slate = Idle /\ response = Idle
    /\ log_file = None /\ log_calls = 0

\* hard = apply_hard_filters(df, profile, allowed_tiers); entry of apply_fallbacks
HardFilter ==
    /\ pc = "hard"
    /\ hard' = apply_hard_filters(df, columns, profile, allowed)
    /\ results' = FbStart(hard').results
    /\ reasons' = FbStart(hard').reasons
    /\ counters' = FbStart(hard').counters
    /\ tried' = FbStart(hard').tried
    /\ pc' = "fb1"
    /\ UNCHANGED <<journey, journey2, log_file, log_calls, allowed, allowed2, sheet, columns, snap, df, profile, info,
                   ranked, rng, slate, response>>

Locals == [results |-> results, reasons |-> reasons, counters |-> counters, tried |-> tried]

SetLocals(st, next) ==
    /\ results' = st.results
    /\ reasons' = st.reasons
    /\ counters' = st.counters
    /\ tried' = st.tried
    /\ pc' = next
    /\ UNCHANGED <<journey, journey2, log_file, log_calls, allowed, allowed2, sheet, columns, snap, df, profile, hard, info,
                   ranked, rng, slate, response>>

Ladder1 == pc = "fb1" /\ SetLocals(FbStep1(Locals, df, profile, allowed), "fb2")

Ladder2 == pc = "fb2" /\ SetLocals(FbStep2(Locals, df, profile, allowed), "fb3")

Ladder3 == pc = "fb3" /\ SetLocals(FbStep3(Locals, df, profile, allowed), "fb4")

Ladder4 == pc = "fb4" /\ SetLocals(FbStep4(Locals, df, profile, allowed), "fb5")

Ladder5 == pc = "fb5" /\ SetLocals(FbStep5(Locals, df, profile, allowed), "fb_ret")

LadderReturn ==
    /\ pc = "fb_ret"
    /\ info' = FbInfo(Locals)
    /\ pc' = "fb_done"
    /\ UNCHANGED <<journey, journey2, log_file, log_calls, allowed, allowed2, sheet, columns, snap, df, profile, hard,
                   results, reasons, counters, tried, ranked, rng, slate, response>>

NextLadder ==
    \/ HardFilter
    \/ Ladder1
    \/ Ladder2
    \/ Ladder3
    \/ Ladder4
    \/ Ladder5
    \/ LadderReturn

SpecLadder == InitLadder /\ [][NextLadder]_vars

\* ------------------------------------------------------------------------
\* Final-fallback specification: the ladder on catalogs of up to MaxRowsG
\* rows, for the lowest band
\* ------------------------------------------------------------------------

InitCheapest ==
    /\ pc = "hard"
    /\ journey = Idle /\ journey2 = Idle /\ allowed2 = Idle
    /\ allowed = BandLow
    /\ df \in SeqsUpTo(UniverseG, MaxRowsG)
    /\ sheet = df
    /\ columns = AllColumns /\ snap = Idle
    /\ profile \in ProfilesG
    /\ hard = Idle
    /\ results = Idle /\ reasons = Idle /\ counters = Idle /\ tried = {}
    /\ info = Idle /\ ranked = Idle /\ rng = 0 /\ slate = Idle /\ response = Idle
    /\ log_file = None /\ log_calls = 0

SpecCheapest == InitCheapest /\ [][NextLadder]_vars

\* ------------------------------------------------------------------------
\* Missing-data specification: apply_hard_filters on frames with blank cells
\* or without one of the filtered columns
\* ------------------------------------------------------------------------

InitColumns ==
    /\ pc = "cols"
    /\ journey = Idle /\ journey2 = Idle /\ allowed2 = Idle
    /\ allowed \in Bands
    /\ df \in SeqsUpTo(UniverseC, MaxRowsC)
    /\ sheet = df
    /\ columns \in ColumnSets /\ snap = Idle
    /\ profile \in ProfilesF
    /\ hard = Idle
    /\ results = Idle /\ reasons = Idle /\ counters = Idle /\ tried = {}
    /\ info = Idle /\ ranked = Idle /\ rng = 0 /\ slate = Idle /\ response = Idle
    /\ log_file = None /\ log_calls = 0

\* hard = apply_hard_filters(df, profile, allowed_tiers), or the KeyError
HardFilterCall ==
    /\ pc = "cols"
    /\ IF apply_tier_gate_raises(columns)
       THEN hard' = hard /\ pc' = "raised"
       ELSE hard' = apply_hard_filters(df, columns, profile, allowed) /\ pc' = "cols_done"
    /\ UNCHANGED <<journey, journey2, log_file, log_calls, allowed, allowed2, sheet, df, columns, snap, profile,
                   results, reasons, counters, tried, info, ranked, rng, slate, response>>

NextColumns == HardFilterCall

SpecColumns == InitColumns /\ [][NextColumns]_vars

\* ------------------------------------------------------------------------
\* Request specification: one call of recommend, stage by stage
\* ------------------------------------------------------------------------

Init ==
    /\ pc = "start"
    /\ journey = Idle /\ journey2 = Idle /\ allowed = Idle /\ allowed2 = Idle
    /\ sheet \in SeqsUpTo(UniverseS, MaxRowsS)
    /\ df = sheet
    /\ columns = AllColumns /\ snap = Idle
    /\ profile \in Payloads
    /\ hard = Idle
    /\ results = Idle /\ reasons = Idle /\ counters = Idle /\ tried = {}
    /\ info = Idle /\ ranked = Idle /\ rng = 0 /\ slate = Idle /\ response = Idle
    /\ log_file \in LogFiles /\ log_calls = 0

\* app.py 138-170: the first ranking of the frame held at the start; an empty
\* frame ends the request with "No sticks matched your criteria"
Precheck ==
    /\ pc = "start"
    /\ IF rank(df, DeriveProfile(profile)) = <<>>
       THEN response' = NoSticks /\ pc' = "done"
       ELSE response' = response /\ pc' = "derive"
    /\ UNCHANGED <<journey, journey2, log_file, log_calls, allowed, allowed2, sheet, columns, snap, df, profile, hard,
                   results, reasons, counters, tried, info, ranked, rng, slate>>

\* app.py 180-212: derived profile fields, reload of df, tier gate, hard filter
Derive ==
    /\ pc = "derive"
    /\ profile' = DeriveProfile(profile)
    /\ df' = sheet
    /\ allowed' = allowed_tiers_for(Str(profile'.journey))
    /\ hard' = apply_hard_filters(df', columns, profile', allowed')
    /\ snap' = df'
    /\ pc' = "fallbacks"
    /\ UNCHANGED <<journey, journey2, log_file, log_calls, allowed2, sheet, columns, results, reasons, counters,
                   tried, info, ranked, rng, slate, response>>

\* app.py 215
Fallbacks ==
    /\ pc = "fallbacks"
    /\ LET fb == apply_fallbacks(df, hard, profile, allowed)
       IN  results' = fb.results /\ info' = fb.info
    /\ pc' = "rank"
    /\ UNCHANGED <<journey, journey2, log_file, log_calls, allowed, allowed2, sheet, columns, snap, df, profile, hard,
                   reasons, counters, tried, ranked, rng, slate, response>>

\* mutant: rank scores and sorts the frame it is given, in place
RankStageMut ==
    /\ pc = "rank"
    /\ ranked' = RankAndNarrow(results, profile)
    /\ df' = [i \in 1..Len(ranked') |-> ranked'[i].row]
    /\ columns' = columns \cup {"Score"}
    /\ pc' = "select"
    /\ UNCHANGED <<journey, journey2, log_file, log_calls, allowed, allowed2, sheet, snap, profile, hard,
                   results, reasons, counters, tried, info, rng, slate, response>>

\* app.py 218-224
RankStage ==
    /\ pc = "rank"
    /\ ranked' = RankAndNarrow(results, profile)
    /\ pc' = "select"
    /\ UNCHANGED <<journey, journey2, log_file, log_calls, allowed, allowed2, sheet, columns, snap, df, profile, hard,
                   results, reasons, counters, tried, info, rng, slate, response>>

\* app.py 227-314
Select ==
    /\ pc = "select"
    /\ rng' = IF ranked = <<>> THEN rng ELSE ProbRng(ranked)
    /\ ranked' = WithProb(ranked)
    /\ slate' = SelectSlate(ranked', profile, rng')
    /\ pc' = "respond"
    /\ UNCHANGED <<journey, journey2, log_file, log_calls, allowed, allowed2, sheet, columns, snap, df, profile, hard,
                   results, reasons, counters, tried, info, response>>

\* app.py 334-489: the payload, then the log entry
Respond ==
    /\ pc = "respond"
    /\ response' = Payload(ranked, slate, profile, info)
    /\ log_file' = log_event(log_file, EventOf(profile, info, response'))
    /\ log_calls' = log_calls + 1
    /\ pc' = "done"
    /\ UNCHANGED <<journey, journey2, allowed, allowed2, sheet, columns, snap, df, profile, hard,
                   results, reasons, counters, tried, info, ranked, rng, slate>>

Next ==
    \/ Precheck
    \/ Derive
    \/ Fallbacks
    \/ RankStage
    \/ Select
    \/ Respond

Spec == Init /\ [][Next]_vars

\* ------------------------------------------------------------------------
\* Slate specification: one call of recommend on the catalogs of UniverseP
\* ------------------------------------------------------------------------

InitSlate ==
    /\ pc = "start"
    /\ journey = Idle /\ journey2 = Idle /\ allowed = Idle /\ allowed2 = Idle
    /\ sheet \in SeqsUpTo(UniverseP, MaxRowsP)
    /\ df = sheet
    /\ columns = AllColumns /\ snap = Idle
    /\ profile \in PayloadsP
    /\ hard = Idle
    /\ results = Idle /\ reasons = Idle /\ counters = Idle /\ tried = {}
    /\ info = Idle /\ ranked = Idle /\ rng = 0 /\ slate = Idle /\ response = Idle
    /\ log_file = None /\ log_calls = 0

SpecSlate == InitSlate /\ [][Next]_vars

\* ------------------------------------------------------------------------
\* Scorer specification: rank on a frame of up to MaxRowsR rows
\* ------------------------------------------------------------------------

InitScore ==
    /\ pc = "score"
    /\ journey = Idle /\ journey2 = Idle /\ allowed = Idle /\ allowed2 = Idle
    /\ df \in SeqsUpTo(UniverseR, MaxRowsR)
    /\ sheet = df
    /\ columns = AllColumns /\ snap = Idle
    /\ profile \in ProfilesR
    /\ hard = Idle
    /\ results = Idle /\ reasons = Idle /\ counters = Idle /\ tried = {}
    /\ info = Idle /\ ranked = Idle /\ rng = 0 /\ slate = Idle /\ response = Idle
    /\ log_file = None /\ log_calls = 0

\* ranked = rank(results, profile)
ScoreRows ==
    /\ pc = "score"
    /\ ranked' = rank(df, profile)
    /\ pc' = "scored"
    /\ UNCHANGED <<journey, journey2, log_file, log_calls, allowed, allowed2, sheet, columns, snap, df, profile,
                   hard, results, reasons, counters, tried, info, rng, slate, response>>

NextScore == ScoreRows

SpecScore == InitScore /\ [][NextScore]_vars

\* ------------------------------------------------------------------------
\* Logger specification: successive calls of log_event, starting without a
\* log file
\* ------------------------------------------------------------------------

InitLogger ==
    /\ pc = "log"
    /\ journey = Idle /\ journey2 = Idle /\ allowed = Idle /\ allowed2 = Idle
    /\ sheet = Idle /\ df = Idle /\ columns = {} /\ snap = Idle /\ profile = Idle /\ hard = Idle
    /\ results = Idle /\ reasons = Idle /\ counters = Idle /\ tried = {}
    /\ info = Idle /\ ranked = Idle /\ rng = 0 /\ slate = Idle /\ response = Idle
    /\ log_file = None /\ log_calls = 0

LogEvent ==
    /\ pc = "log"
    /\ log_calls < MaxCalls
    /\ \E event \in Events : log_file' = log_event(log_file, event)
    /\ log_calls' = log_calls + 1
    /\ UNCHANGED <<pc, journey, journey2, allowed, allowed2, sheet, df, columns, snap,
                   profile, hard, results, reasons, counters, tried, info, ranked, rng,
                   slate, response>>

NextLogger == LogEvent

SpecLogger == InitLogger /\ [][NextLogger]_vars

\* ------------------------------------------------------------------------
\* Concurrent specification: one request, observed while the spreadsheet is
\* rewritten and other requests of the threaded server reload the global df
\* ------------------------------------------------------------------------

InitConcurrent ==
    /\ pc = "start"
    /\ journey = Idle /\ journey2 = Idle /\ allowed = Idle /\ allowed2 = Idle
    /\ sheet \in SeqsUpTo(UniverseK, MaxRowsK)
    /\ df = sheet
    /\ columns = AllColumns /\ snap = Idle
    /\ profile \in PayloadsK
    /\ hard = Idle
    /\ results = Idle /\ reasons = Idle /\ counters = Idle /\ tried = {}
    /\ info = Idle /\ ranked = Idle /\ rng = 0 /\ slate = Idle /\ response = Idle
    /\ log_file = None /\ log_calls = 0

\* tools/merge_excel.py saves a new workbook; at most one rewrite is pending
SheetRefresh ==
    /\ pc # "done"
    /\ sheet = df
    /\ sheet' \in SeqsUpTo(UniverseK, MaxRowsK) \ {sheet}
    /\ UNCHANGED <<pc, journey, journey2, log_file, log_calls, allowed, allowed2, df, columns, snap, profile,
                   hard, results, reasons, counters, tried, info, ranked, rng, slate,
                   response>>

\* another request executes "df = load_dataset()" (app.py 204)
OtherReload ==
    /\ pc # "done"
    /\ df # sheet
    /\ df' = sheet
    /\ UNCHANGED <<pc, journey, journey2, log_file, log_calls, allowed, allowed2, sheet, columns, snap, profile,
                   hard, results, reasons, counters, tried, info, ranked, rng, slate,
                   response>>

NextConcurrent ==
    \/ Precheck
    \/ Derive
    \/ Fallbacks
    \/ RankStage
    \/ Select
    \/ Respond
    \/ SheetRefresh
    \/ OtherReload

SpecConcurrent == InitConcurrent /\ [][NextConcurrent]_vars

\* ------------------------------------------------------------------------
\* Properties of the Tier Gate
\* ------------------------------------------------------------------------

BothNumeric == pc = "tier_done" /\ journey.kind = "num" /\ journey2.kind = "num"

\* C1 (as stated): for numeric skills s1 < s2, every tier allowed for s1 is
\* allowed for s2.
C1_TierMonotonic ==
    (BothNumeric /\ journey.num < journey2.num) => Range(allowed) \subseteq Range(allowed2)

\* C1 (amended): for numeric skills s1 < s2, every tier allowed for s1 is
\* allowed for s2, except Genesis when s1 <= 6 and 6 < s2 <= 8.
C1_TierMonotonicButGenesis ==
    (BothNumeric /\ journey.num < journey2.num) =>
        Range(allowed) \ Range(allowed2) \subseteq
            (IF journey.num <= 60 /\ 60 < journey2.num /\ journey2.num <= 80 THEN {"Genesis"} ELSE {})

C1_Witness ==
    /\ BothNumeric /\ journey.num < journey2.num
    /\ "Genesis" \in Range(allowed) /\ "Genesis" \notin Range(allowed2)
    /\ "Evolution" \in Range(allowed) /\ "Evolution" \in Range(allowed2)

TierDone == pc = "tier_done"

\* C12: a numeric skill s maps to [Genesis] if s <= 3, [Genesis, Evolution]
\* if 3 < s <= 6, [Evolution, Intermediate, Performance] if 6 < s <= 8 and
\* all five tiers if s > 8; the labels genesis, evolution,
\* intermediate/performance and elite, in any letter case and with
\* surrounding spaces, map to the same four bands.
C12_TierMapping ==
    TierDone =>
        /\ journey.kind = "num" =>
               allowed = (IF journey.num <= 30 THEN <<"Genesis">>
                          ELSE IF journey.num <= 60 THEN <<"Genesis", "Evolution">>
                          ELSE IF journey.num <= 80
                               THEN <<"Evolution", "Intermediate", "Performance">>
                          ELSE <<"Genesis", "Evolution", "Intermediate", "Performance", "Elite">>)
        /\ (journey.kind = "str" /\ journey.str \in {"Genesis", "genesis", " GENESIS "}) =>
               allowed = <<"Genesis">>
        /\ (journey.kind = "str" /\ journey.str \in {"Evolution", "evolution", "EVOLUTION"}) =>
               allowed = <<"Genesis", "Evolution">>
        /\ (journey.kind = "str" /\ journey.str \in
                {"Intermediate", "intermediate", "Performance", " performance"}) =>
               allowed = <<"Evolution", "Intermediate", "Performance">>
        /\ (journey.kind = "str" /\ journey.str \in {"Elite", "elite", " ELITE "}) =>
               allowed = <<"Genesis", "Evolution", "Intermediate", "Performance", "Elite">>

C12_Witness ==
    /\ TierDone
    /\ journey = Str(" performance") /\ allowed = BandMid
    /\ journey2.kind = "num" /\ 60 < journey2.num /\ journey2.num <= 80
    /\ allowed2 = BandMid

Unrecognized(j) ==
    \/ j.kind \in {"none", "list"}
    \/ j.kind = "str" /\ j.str \in {"junior", "", "nan", "inf"}

\* C13: an input that is neither a recognized tier label nor a number (an
\* unknown or empty string, a string that is not a plain number, None, another
\* type) maps to the lowest band, [Genesis].
C13_FailSafe == (TierDone /\ Unrecognized(journey)) => allowed = <<"Genesis">>

\* C27: for every skill in 0..10, the allowed tiers the request pipeline
\* uses (allowed_tiers_for applied to the journey label that recommend derives
\* from the skill) equal allowed_tiers_for applied to the numeric skill.
C27_PipelineTiers ==
    (TierDone /\ journey.kind = "num" /\ journey2 = Str(JourneyOf(journey.num))) =>
        allowed2 = allowed

\* ------------------------------------------------------------------------
\* Properties of the Hard Filter and the Fallback Ladder
\* ------------------------------------------------------------------------

LadderDone == pc = "fb_done"

\* C2: a non-empty Hard Filter result is returned as it is, no ladder step is
\* evaluated, and the diagnostics are empty (no token, no counter).
C2_NoFallbackWhenHardNonEmpty ==
    (LadderDone /\ hard # <<>>) =>
        /\ results = hard
        /\ info = None
        /\ tried = {}
        /\ reasons = <<>>
        /\ counters = ZeroCounters

C2_Witness == LadderDone /\ hard # <<>> /\ results = hard

StepToken(k) ==
    CASE k = 1 -> "budget(+10%)"
      [] k = 2 -> "budget(+20%)"
      [] k = 3 -> "length(+-1.0)"
      [] k = 4 -> "tiers(^1 step)"
      [] k = 5 -> "final_cheapest(3)"

StepCounters(k, n) ==
    CASE k \in {1, 2} -> [ZeroCounters EXCEPT !.budget_relax = 1]
      [] k = 3 -> [ZeroCounters EXCEPT !.length_relax = 1]
      [] k = 4 -> [ZeroCounters EXCEPT !.tier_relax = 1]
      [] k = 5 -> [ZeroCounters EXCEPT !.final_cheapest = n]

\* C3: ladder step k is evaluated only if the Hard Filter and the steps
\* 1..k-1 produced no row; the first step that produces rows is the last one
\* evaluated and it alone leaves a reason token and a counter.
C3_EscalationOrder ==
    /\ \A t \in tried :
          /\ hard = <<>>
          /\ \A j \in 1..(t[1] - 1) : <<j, 0>> \in tried
    /\ LadderDone =>
          \A t \in tried :
              (t[2] > 0 \/ t[1] = 5) =>
                  /\ \A u \in tried : u[1] <= t[1]
                  /\ Len(results) = t[2]
                  /\ reasons = <<StepToken(t[1])>>
                  /\ counters = StepCounters(t[1], t[2])

C3_Witness ==
    /\ LadderDone
    /\ \E t \in tried : t[1] = 3 /\ t[2] > 0
    /\ <<1, 0>> \in tried /\ <<2, 0>> \in tried

PlayerMatches(r) == Lower(r.PlayerType) = Lower(profile.player_type)

\* C4: apply_fallbacks returns at least one row exactly when some catalog row
\* has the profile's player type (compared case-insensitively).
C4_NonEmptyUnlessNoPlayerType ==
    LadderDone => ((\E i \in 1..Len(df) : PlayerMatches(df[i])) <=> results # <<>>)

C4_Witness ==
    /\ LadderDone
    /\ \E t \in tried : t[1] = 5 /\ t[2] > 0
    /\ results # <<>>

\* C5: every row of the Hard Filter result is a catalog row whose tier is
\* allowed, whose price is <= 1.05 x budget when budget > 0, whose length is
\* within 0.5 of the target when one is given, and whose player type equals
\* the profile's, case-insensitively.
C5_HardFilterSound ==
    (pc # "hard") =>
        \A i \in 1..Len(hard) :
            /\ hard[i] \in Range(df)
            /\ hard[i].PlayingLevel \in Range(allowed)
            /\ (profile.budget > 0 =>
                    /\ ~IsNone(hard[i].FullPrice)
                    /\ 100 * Val(hard[i].FullPrice) <= 105 * profile.budget)
            /\ (~IsNone(profile.length) =>
                    /\ ~IsNone(hard[i].Length)
                    /\ Abs(Val(hard[i].Length) - Val(profile.length)) <= 5000)
            /\ PlayerMatches(hard[i])

\* the four predicates of the Hard Filter, for a catalog row
MeetsAll(r) ==
    /\ r.PlayingLevel \in Range(allowed)
    /\ (profile.budget > 0 =>
            ~IsNone(r.FullPrice) /\ 100 * Val(r.FullPrice) <= 105 * profile.budget)
    /\ (~IsNone(profile.length) =>
            ~IsNone(r.Length) /\ Abs(Val(r.Length) - Val(profile.length)) <= 5000)
    /\ PlayerMatches(r)

\* C19: the Hard Filter keeps every catalog row that meets the four
\* predicates, bounds included (price exactly 1.05 x budget, length exactly
\* 0.5 from the target); budget 0 means no price bound and no target length
\* means no length bound.
C19_HardFilterComplete ==
    (pc # "hard") =>
        /\ \A i \in 1..Len(df) : MeetsAll(df[i]) => df[i] \in Range(hard)
        /\ SelectSeq(df, MeetsAll) = SelectSeq(hard, MeetsAll)

\* a kept row priced exactly 1.05 x budget and exactly 0.5 from the target
C19_Witness ==
    /\ pc # "hard"
    /\ profile.budget > 0 /\ ~IsNone(profile.length)
    /\ \E i \in 1..Len(hard) :
           /\ 100 * Val(hard[i].FullPrice) = 105 * profile.budget
           /\ Abs(Val(hard[i].Length) - Val(profile.length)) = 5000

\* the query the claim gives for a ladder step: tolerance in 1/10000 inch,
\* cap in percent of the budget
StepQuery(r, tol, pct) ==
    /\ PlayerMatches(r)
    /\ r.PlayingLevel \in Range(allowed)
    /\ (~IsNone(profile.length) =>
            ~IsNone(r.Length) /\ Abs(Val(r.Length) - Val(profile.length)) <= tol)
    /\ (profile.budget > 0 =>
            ~IsNone(r.FullPrice) /\ 100 * Val(r.FullPrice) <= pct * profile.budget)

Step1Query(r) == StepQuery(r, 5000, 110)

Step2Query(r) == StepQuery(r, 5000, 120)

Step3Query(r) == StepQuery(r, 10000, 120)

Produced(k) == \E t \in tried : t[1] = k /\ t[2] > 0

\* C20: when ladder step 1 (2, 3) produces the result, the returned rows are
\* exactly the catalog rows of the profile's player type and of an allowed
\* tier whose length is within 0.5 (0.5, 1.0) of the target, when one is
\* given, and whose price is <= 1.10 (1.20, 1.20) x budget, when budget > 0.
C20_LadderSteps ==
    LadderDone =>
        /\ Produced(1) => results = SelectSeq(df, Step1Query)
        /\ Produced(2) => results = SelectSeq(df, Step2Query)
        /\ Produced(3) => results = SelectSeq(df, Step3Query)

Evaluated(k) == \E t \in tried : t[1] = k

\* the tier immediately above the highest allowed tier, when there is one
TierAbove(allow) ==
    LET top == SetMax({TierIndex(t) : t \in Range(allow)})
    IN  IF top < Len(TIER_ORDER) THEN {TIER_ORDER[top + 1]} ELSE {}

Step4Tiers == Range(allowed) \cup TierAbove(allowed)

\* C21: the tier set applied by ladder step 4 is the allowed set plus the
\* one tier immediately above the highest allowed tier; no tier below or
\* outside the allowed set is added; the rows step 4 returns have such a
\* tier, a price <= 1.20 x budget and a length within 1.0 of the target.
C21_TierStep ==
    (LadderDone /\ Evaluated(4)) =>
        /\ Range(HigherTiers(allowed)) = Step4Tiers
        /\ Produced(4) =>
               \A i \in 1..Len(results) :
                   /\ results[i].PlayingLevel \in Step4Tiers
                   /\ (profile.budget > 0 =>
                           /\ ~IsNone(results[i].FullPrice)
                           /\ 100 * Val(results[i].FullPrice) <= 120 * profile.budget)
                   /\ (~IsNone(profile.length) =>
                           /\ ~IsNone(results[i].Length)
                           /\ Abs(Val(results[i].Length) - Val(profile.length)) <= 10000)

\* rows of the catalog that have the profile's player type
OfPlayerType == SelectSeq(df, PlayerMatches)

\* a has a price and it is below the price of b, or b has none
Cheaper(a, b) ==
    /\ ~IsNone(a.FullPrice)
    /\ (IsNone(b.FullPrice) \/ Val(a.FullPrice) < Val(b.FullPrice))

Occurrences(s, x) == Cardinality({i \in 1..Len(s) : s[i] = x})

\* C22: when step 5 runs it returns at most 3 rows, all of the profile's
\* player type, chosen whatever their tier, price and length (3 rows whenever
\* the catalog has 3 rows of the player type); no row of the player type
\* that was left out is cheaper than a returned row; counters.final_cheapest
\* is the number of rows returned.
C22_FinalCheapest ==
    (LadderDone /\ Evaluated(5)) =>
        /\ Len(results) <= 3
        /\ Len(results) = Min2(3, Len(OfPlayerType))
        /\ \A i \in 1..Len(results) :
               /\ PlayerMatches(results[i])
               /\ Occurrences(results, results[i]) <= Occurrences(df, results[i])
        /\ \A i \in 1..Len(OfPlayerType) :
               Occurrences(results, OfPlayerType[i]) < Occurrences(df, OfPlayerType[i]) =>
                   \A j \in 1..Len(results) : ~Cheaper(OfPlayerType[i], results[j])
        /\ counters.final_cheapest = Len(results)

\* step 5 returned 3 of at least 4 rows of the player type, among them a row
\* of a tier out of reach, a row above 1.20 x budget and a row more than 1.0
\* from the target length
C22_Witness ==
    /\ LadderDone /\ Evaluated(5)
    /\ Len(OfPlayerType) > 3 /\ Len(results) = 3
    /\ profile.budget > 0
    /\ \E i \in 1..3 : results[i].PlayingLevel \notin Range(HigherTiers(allowed))
    /\ \E i \in 1..3 : /\ ~IsNone(results[i].FullPrice)
                       /\ 100 * Val(results[i].FullPrice) > 120 * profile.budget
    /\ \E i \in 1..3 : /\ ~IsNone(results[i].Length)
                       /\ Abs(Val(results[i].Length) - Val(profile.length)) > 10000
    /\ \E i \in 1..Len(df) : PlayerMatches(df[i]) /\ df[i] \notin Range(results)

\* the reason tokens and a counter of the returned diagnostics
Relaxed == IF IsNone(info) THEN {} ELSE Range(Val(info).relaxed)

BudgetToken ==
    /\ Relaxed \cap {"budget(+10%)", "budget(+20%)"} # {}
    /\ Val(info).counters.budget_relax > 0

LengthToken == "length(+-1.0)" \in Relaxed /\ Val(info).counters.length_relax > 0

TiersToken == "tiers(^1 step)" \in Relaxed /\ Val(info).counters.tier_relax > 0

FinalToken == "final_cheapest(3)" \in Relaxed /\ Val(info).counters.final_cheapest > 0

\* some returned row is priced above pct percent of the budget
PricedAbove(pct) ==
    /\ profile.budget > 0
    /\ \E i \in 1..Len(results) :
           IsNone(results[i].FullPrice) \/ 100 * Val(results[i].FullPrice) > pct * profile.budget

\* some returned row is more than tol from the target length
LengthBeyond(tol) ==
    /\ ~IsNone(profile.length)
    /\ \E i \in 1..Len(results) :
           IsNone(results[i].Length) \/ Abs(Val(results[i].Length) - Val(profile.length)) > tol

TierAdded == \E i \in 1..Len(results) : results[i].PlayingLevel \notin Range(allowed)

\* C26: the diagnostics account for every relaxation in force: a returned
\* row priced above 1.05 x budget implies a budget token (or the
\* final_cheapest token) with a non-zero counter, a returned row more than 0.5
\* from the target length implies the length token (or final_cheapest), a
\* returned row of a tier outside the allowed set implies the tiers token (or
\* final_cheapest).
C26_DiagnosticsAccount ==
    LadderDone =>
        /\ PricedAbove(105) => (BudgetToken \/ FinalToken)
        /\ LengthBeyond(5000) => (LengthToken \/ FinalToken)
        /\ TierAdded => (TiersToken \/ FinalToken)

\* C26, amended: the diagnostics name the one step that produced the rows.
\* A returned row that fails the Hard Filter's price test implies some token
\* (the length and tiers steps apply the 1.20 x budget ceiling under their own
\* token), one that fails its length test implies the length, tiers or
\* final_cheapest token, one of a tier outside the allowed set implies the
\* tiers or final_cheapest token; the named counter is non-zero and there is
\* never more than one token.
C26_DiagnosticsNameOneStep ==
    LadderDone =>
        /\ (\E i \in 1..Len(results) : ~HardPriceOk(results[i], profile)) =>
               (BudgetToken \/ LengthToken \/ TiersToken \/ FinalToken)
        /\ (\E i \in 1..Len(results) : ~HardLengthOk(results[i], profile)) =>
               (LengthToken \/ TiersToken \/ FinalToken)
        /\ TierAdded => (TiersToken \/ FinalToken)
        /\ Cardinality(Relaxed) <= 1

\* the length step returned a row priced above 1.05 x budget: the
\* diagnostics hold the length token and no budget token
C26_Witness ==
    /\ LadderDone
    /\ PricedAbove(105)
    /\ LengthToken
    /\ ~BudgetToken

\* ------------------------------------------------------------------------
\* Properties of a request
\* ------------------------------------------------------------------------

Answered == pc = "done" /\ response.ok

Selected == pc \in {"respond", "done"} /\ ranked # <<>>

\* C6: with at least three distinct candidate rows, the primary, the
\* secondary and the wildcard of the response are pairwise different rows.
C6_Distinct ==
    (Answered /\ Cardinality(Range(ranked)) >= 3) =>
        LET P == response.primaries
            W == response.wildcard
        IN  /\ \A i, j \in 1..Len(P) : i # j => P[i] # P[j]
            /\ ~IsNone(W) => \A i \in 1..Len(P) : P[i] # Val(W)

Injections(n) == {g \in [1..n -> 1..n] : \A i, j \in 1..n : g[i] = g[j] => i = j}

Orderings(f) == {[i \in 1..Len(f) |-> f[g[i]]] : g \in Injections(Len(f))}

\* C7: for the same profile, every ordering of the catalog rows yields the
\* same P1, P2 and wildcard.
C7_OrderIndependent ==
    Answered =>
        \A q \in Orderings(sheet) :
            /\ RecommendFrom(q, q, profile).primaries = response.primaries
            /\ RecommendFrom(q, q, profile).wildcard = response.wildcard

\* C8: every candidate's probability is (score - min) / (max - min), within
\* [0, 1], and is 1.0 for every row when all scores are equal.
C8_Probability ==
    Selected =>
        \A i \in 1..Len(ranked) :
            /\ 0 <= ranked[i].Prob /\ ranked[i].Prob <= rng
            /\ IF ScoreMax(ranked) > ScoreMin(ranked)
               THEN rng = ScoreMax(ranked) - ScoreMin(ranked)
                    /\ ranked[i].Prob = ranked[i].Score - ScoreMin(ranked)
               ELSE ranked[i].Prob = rng

NoRowOfPlayerType ==
    \A i \in 1..Len(sheet) :
        Lower(sheet[i].PlayerType) # Lower(PlayerTypeOf(profile.category))

EmptySignal ==
    /\ response.ok
    /\ response.primaries = <<>>
    /\ IsNone(response.wildcard)
    /\ ~IsNone(response.fallback)
    /\ Val(response.fallback).counters.final_cheapest = 0

\* C9 (as stated): when the catalog holds no row of the profile's player
\* type, the response is an empty slate with diagnostics whose
\* final_cheapest counter is 0.
C9_EmptySignal == (pc = "done" /\ NoRowOfPlayerType) => EmptySignal

\* C9 (amended): when the catalog is not empty and holds no row of the
\* profile's player type, the response is an empty slate with diagnostics
\* whose final_cheapest counter is 0.
C9_EmptySignalNonEmptyCatalog ==
    (pc = "done" /\ sheet # <<>> /\ NoRowOfPlayerType) => EmptySignal

C9_Witness ==
    /\ pc = "done" /\ NoRowOfPlayerType /\ Len(sheet) >= 2
    /\ response.ok /\ ~IsNone(response.fallback)
    /\ Val(response.fallback).relaxed = <<"final_cheapest(3)">>

\* the wildcard rule of the selection block, stated on the response
WildcardRule(r) ==
    LET P == response.primaries
    IN  /\ r \notin Range(P)
        /\ 100 * r.Prob >= 100 * P[1].Prob - 15 * rng
        /\ bow_fam(r.row.Bow) \notin {bow_fam(P[i].row.Bow) : i \in 1..Len(P)}
        /\ ~is_solid_core(r.row)

\* the rule of the WildcardAdapter, stated on the response
AdapterRule(r) ==
    LET P == response.primaries
    IN  /\ r.row.Code \notin {P[i].row.Code : i \in 1..Len(P)}
        /\ (profile.budget > 0 =>
                /\ ~IsNone(r.row.FullPrice)
                /\ 100 * Val(r.row.FullPrice) <= 120 * profile.budget)
        /\ (r.row.Bow # P[1].row.Bow \/ r.row.Carbon # P[1].row.Carbon)

RuleRows == {i \in 1..Len(ranked) : WildcardRule(ranked[i])}

AdapterRows == {i \in 1..Len(ranked) : AdapterRule(ranked[i])}

FirstOf(I) == ranked[CHOOSE i \in I : \A j \in I : i <= j]

DistinctPrimaries ==
    \A i, j \in 1..Len(response.primaries) :
        i # j => response.primaries[i] # response.primaries[j]

\* C10 (as stated, for responses whose primaries are different rows): the
\* wildcard is the first row in rank order, other than P1 and P2, that is
\* within 0.15 of the top probability, of a bow family used by neither P1 nor
\* P2 and not solid-core; it is null when no row meets the three conditions.
C10_WildcardRule ==
    (Answered /\ ranked # <<>> /\ DistinctPrimaries) =>
        IF RuleRows = {} THEN IsNone(response.wildcard)
        ELSE IsNone(response.wildcard) \/ response.wildcard = Some(FirstOf(RuleRows))

\* C10 (amended): with more than two candidate rows the wildcard is the first
\* row meeting the three conditions; when there is none (or at most two
\* candidates) it is the first row in rank order whose product code is not
\* P1's or P2's, whose price is <= 1.20 x budget when a budget is set and
\* whose Bow or Carbon differs from P1's; it is null only when that row does
\* not exist either.
C10_WildcardRuleOrAdapter ==
    (Answered /\ ranked # <<>>) =>
        IF Len(ranked) > 2 /\ RuleRows # {} THEN response.wildcard = Some(FirstOf(RuleRows))
        ELSE IF AdapterRows # {} THEN response.wildcard = Some(FirstOf(AdapterRows))
        ELSE IsNone(response.wildcard)

C10_Witness ==
    /\ Answered /\ Len(ranked) > 2 /\ RuleRows # {}
    /\ response.wildcard = Some(FirstOf(RuleRows))
    /\ \E i \in 1..Len(ranked) : i < CHOOSE k \in RuleRows : \A j \in RuleRows : k <= j

\* ------------------------------------------------------------------------
\* Properties of the P1 choice
\* ------------------------------------------------------------------------

FamilyRows(fam) == {i \in 1..Len(ranked) : bow_fam(ranked[i].row.Bow) = fam}

\* importance, on the buyer's 0..10 scale
HighDragflick == profile.dragflick > 7

HighAerials == profile.aerials > 7

\* C11: with drag-flick importance > 7 and an xtreme-family candidate, P1 is
\* the first xtreme row in rank order; otherwise, with aerial importance > 7,
\* drag-flick importance <= 7 and an ultimate v2 candidate, P1 is the first
\* ultimate v2 row; with both importances > 7 the aerial override is not
\* applied (P1 is the first xtreme row, or the top row when there is none).
C11_P1Override ==
    Selected =>
        /\ (HighDragflick /\ FamilyRows("xtreme") # {}) =>
               slate.p1 = Some(FirstOf(FamilyRows("xtreme")))
        /\ (~HighDragflick /\ HighAerials /\ FamilyRows("ultimate v2") # {}) =>
               slate.p1 = Some(FirstOf(FamilyRows("ultimate v2")))
        /\ (HighDragflick /\ HighAerials /\ FamilyRows("xtreme") = {}) =>
               slate.p1 = Some(ranked[1])

\* an xtreme row ranked third is promoted to P1
C11_Witness ==
    /\ Selected /\ HighDragflick /\ Len(ranked) >= 3
    /\ FamilyRows("xtreme") = {3}
    /\ ranked[3].Score < ranked[1].Score
    /\ slate.p1 = Some(ranked[3])

NoOverride ==
    /\ ~(HighDragflick /\ FamilyRows("xtreme") # {})
    /\ ~(~HighDragflick /\ HighAerials /\ FamilyRows("ultimate v2") # {})

\* row r is ranked no later than q: higher score, or equal score and a
\* price that is not higher
TopOver(r, q) ==
    \/ score_row(r, profile) > score_row(q, profile)
    \/ /\ score_row(r, profile) = score_row(q, profile)
       /\ Val(r.FullPrice) <= Val(q.FullPrice)

ResultFamilies == {bow_fam(results[i].Bow) : i \in 1..Len(results)}

\* no override family occurs among the returned rows
NoOverrideOnResults ==
    /\ ~(HighDragflick /\ "xtreme" \in ResultFamilies)
    /\ ~(~HighDragflick /\ HighAerials /\ "ultimate v2" \in ResultFamilies)

\* C18 (as stated): when no override applies, P1 is a row of the set returned
\* by the Hard Filter or the Fallback Ladder with the highest score and,
\* among the rows of that score, the lowest price.
C18_DefaultP1 ==
    (Selected /\ NoOverrideOnResults) =>
        /\ Val(slate.p1).row \in Range(results)
        /\ \A i \in 1..Len(results) : TopOver(Val(slate.p1).row, results[i])

\* the candidate rows after the exact-length narrowing of app.py 221-224
Candidates ==
    LET exact == {r \in Range(results) : r.Length = profile.length}
    IN  IF ~IsNone(profile.length) /\ exact # {} THEN exact ELSE Range(results)

\* C18 (amended): when no override applies, P1 is the top-ranked candidate,
\* where the candidates are the returned rows whose length equals the target
\* length exactly when a target is given and such rows exist, and all
\* returned rows otherwise.
C18_DefaultP1OfCandidates ==
    (Selected /\ NoOverride) =>
        /\ slate.p1 = Some(ranked[1])
        /\ Val(slate.p1).row \in Candidates
        /\ \A r \in Candidates : TopOver(Val(slate.p1).row, r)

\* the narrowing has removed a returned row that outscores P1
C18_Witness ==
    /\ Selected /\ NoOverride
    /\ Len(ranked) < Len(results)
    /\ \E i \in 1..Len(results) : score_row(results[i], profile) > Val(slate.p1).Score

\* ------------------------------------------------------------------------
\* Properties of the Hard Filter on missing data
\* ------------------------------------------------------------------------

LacksLength(r) == "Length" \notin columns \/ IsNone(r.Length)

LacksPlayerType(r) == "Player Type" \notin columns \/ r.PlayerType = BlankText

LacksPrice(r) == "Full Price" \notin columns \/ IsNone(r.FullPrice)

LacksTier(r) == "Playing Level" \notin columns \/ r.PlayingLevel = BlankText

LengthPredicate(r) ==
    \/ LacksLength(r)
    \/ IsNone(profile.length)
    \/ Abs(Val(r.Length) - Val(profile.length)) <= 5000

PlayerPredicate(r) == LacksPlayerType(r) \/ PlayerMatches(r)

PricePredicate(r) ==
    /\ ~LacksPrice(r)
    /\ (profile.budget = 0 \/ 100 * Val(r.FullPrice) <= 105 * profile.budget)

TierPredicate(r) == ~LacksTier(r) /\ r.PlayingLevel \in Range(allowed)

\* C14: apply_hard_filters does not raise; a row that lacks the length or the
\* player type passes that predicate (it is kept when it meets the other
\* predicates), and a row that lacks the price or the tier is never kept;
\* "lacks" is a blank cell or a catalog without the column.
C14_MissingData ==
    /\ pc # "raised"
    /\ pc = "cols_done" =>
          \A i \in 1..Len(df) :
              /\ (/\ TierPredicate(df[i]) /\ PricePredicate(df[i])
                  /\ LengthPredicate(df[i]) /\ PlayerPredicate(df[i])) => df[i] \in Range(hard)
              /\ (LacksPrice(df[i]) \/ LacksTier(df[i])) => df[i] \notin Range(hard)

\* ------------------------------------------------------------------------
\* Properties of the catalog frame
\* ------------------------------------------------------------------------

\* C15: no stage of a request adds, removes or changes a row or a column of
\* the catalog frame, and when the request has answered the frame is what was
\* loaded from the sheet.
C15_CatalogImmutable ==
    /\ [][df' = df /\ columns' = columns]_vars
    /\ [](pc \in {"fallbacks", "rank", "select", "respond", "done"} =>
            (response # NoSticks => df = sheet /\ columns = AllColumns))

\* a request has answered from a ranked frame whose rows are ordered
\* differently from the catalog's, and the catalog is as loaded
C15_Witness ==
    /\ Answered /\ Len(df) >= 2
    /\ Len(ranked) = Len(df)
    /\ [i \in 1..Len(ranked) |-> ranked[i].row] # df
    /\ df = sheet /\ columns = AllColumns

\* C16: the Fallback Ladder of a request reads the catalog frame that the
\* Hard Filter of the same request read, whatever the other requests and the
\* spreadsheet's writer do in between.
C16_OneSnapshot == [][(pc = "fallbacks" /\ pc' = "rank") => df = snap]_vars

\* ------------------------------------------------------------------------
\* Properties of the event log
\* ------------------------------------------------------------------------

\* C17: after n calls of log_event, starting without a file, the file holds
\* one header line followed by n event rows.
C17_LogComplete ==
    (pc = "log" /\ log_calls > 0) =>
        /\ ~IsNone(log_file)
        /\ Len(Val(log_file)) = 1 + log_calls
        /\ Val(log_file)[1].kind = "header"
        /\ \A i \in 2..Len(Val(log_file)) : Val(log_file)[i].kind = "row"

\* ------------------------------------------------------------------------
\* Properties of the P2 choice
\* ------------------------------------------------------------------------

P1 == Val(slate.p1)

\* a row other than P1, by full-record comparison
OtherThanP1(i) == ranked[i] # P1

\* probability >= top_probability - 0.10, probabilities over rng
Near(i) == 100 * ranked[i].Prob >= 100 * P1.Prob - 10 * rng

Contrasts(i) ==
    \/ bow_fam(ranked[i].row.Bow) # bow_fam(P1.row.Bow)
    \/ Abs(ranked[i].row.Carbon - P1.row.Carbon) >= 10

SolidCoreV2(i) == bow_fam(ranked[i].row.Bow) = "ultimate v2" /\ is_solid_core(ranked[i].row)

\* the drag-flick special case applies
SpecialApplies == profile.dragflick > 7 /\ profile.budget > 0

ContrastRows == {i \in 1..Len(ranked) : OtherThanP1(i) /\ Near(i) /\ Contrasts(i)}

SolidCoreRows == {i \in 1..Len(ranked) : OtherThanP1(i) /\ Near(i) /\ SolidCoreV2(i)}

\* C23: when the drag-flick special case does not apply (drag-flick
\* importance <= 7 or budget 0), P2 is the first row in rank order, other
\* than P1, that is near-top and contrasts with P1 (other bow family, or
\* carbon at least 10 points away).
C23_P2Contrast ==
    (Selected /\ ~SpecialApplies /\ ContrastRows # {}) =>
        slate.p2 = Some(FirstOf(ContrastRows))

\* P2 is ranked third: the second row is like P1 but for its code, the third
\* contrasts with P1 by carbon alone, exactly 10 points away
C23_Witness ==
    /\ Selected /\ ~SpecialApplies /\ Len(ranked) = 3
    /\ P1 = ranked[1]
    /\ ContrastRows = {3}
    /\ bow_fam(ranked[3].row.Bow) = bow_fam(P1.row.Bow)
    /\ Abs(ranked[3].row.Carbon - P1.row.Carbon) = 10
    /\ slate.p2 = Some(ranked[3])

\* C24 (for slates whose P2 is not P1 again): with drag-flick importance > 7
\* and budget > 0, when some row other than P1 is near-top, of family
\* ultimate v2 and solid-core, P2 is the first such row in rank order,
\* whatever rows satisfying the contrast rule are ranked above it.
C24_P2SolidCore ==
    (Selected /\ SpecialApplies /\ SolidCoreRows # {} /\ slate.p2 # slate.p1) =>
        slate.p2 = Some(FirstOf(SolidCoreRows))

\* the rows that pass the contrast test or the drag-flick special case
PassingRows ==
    {i \in 1..Len(ranked) :
        \/ OtherThanP1(i) /\ Near(i) /\ Contrasts(i)
        \/ SpecialApplies /\ Near(i) /\ SolidCoreV2(i)}

OtherRows == {i \in 1..Len(ranked) : OtherThanP1(i)}

\* the candidate rows are pairwise different records
DistinctRows == \A i, j \in 1..Len(ranked) : i # j => ranked[i] # ranked[j]

Scored == pc = "scored"

\* rows a and b are alike but for the price
OnlyPriceDiffers(a, b) == [a EXCEPT !.FullPrice = b.FullPrice] = b

\* the price of a row, 0 for a blank cell
PriceOf(r) == IF IsNone(r.FullPrice) THEN 0 ELSE Val(r.FullPrice)

\* C28: with budget > 0, of two rows that differ only in price the
\* higher-priced never scores lower; the score rises strictly with the price
\* below the budget, the affordability term is 0.35 for every price >= budget
\* and 0 when the budget or the price is 0 or missing.
C28_Affordability ==
    Scored =>
        \A i, j \in 1..Len(ranked) :
            LET a == ranked[i]
                b == ranked[j]
            IN  OnlyPriceDiffers(a.row, b.row) =>
                    /\ (profile.budget > 0 /\ PriceOf(a.row) > PriceOf(b.row)) =>
                           a.Score >= b.Score
                    /\ (profile.budget > 0 /\ PriceOf(a.row) > PriceOf(b.row)
                           /\ PriceOf(a.row) <= profile.budget) =>
                           a.Score > b.Score
                    /\ (profile.budget > 0 /\ PriceOf(a.row) >= profile.budget
                           /\ PriceOf(b.row) >= profile.budget) =>
                           a.Score = b.Score
                    /\ (profile.budget > 0 /\ PriceOf(a.row) >= profile.budget
                           /\ PriceOf(b.row) = 0) =>
                           a.Score - b.Score = 350000
                    /\ (profile.budget = 0 \/ (PriceOf(a.row) = 0 /\ PriceOf(b.row) = 0)) =>
                           a.Score = b.Score

\* with budget 200 the row priced 210 outscores the like row priced 190
C28_Witness ==
    /\ Scored /\ profile.budget = 200 /\ Len(ranked) = 2
    /\ OnlyPriceDiffers(ranked[1].row, ranked[2].row)
    /\ ranked[1].row.FullPrice = Some(210) /\ ranked[2].row.FullPrice = Some(190)
    /\ ranked[1].Score > ranked[2].Score

\* what the preferred bow adds to the score of row i
BowBonus(i) == ranked[i].Score - score_row(ranked[i].row, [profile EXCEPT !.preferred_bow = ""])

\* C29: the 0.15 bonus is added exactly when the buyer named a preferred bow
\* family and the bow family of the row (standard and standard bend are mid,
\* dsh is xtreme) equals it; no other row receives it, and no row when no
\* family was named.
C29_PreferredBow ==
    Scored =>
        \A i \in 1..Len(ranked) :
            BowBonus(i) =
                IF profile.preferred_bow # ""
                   /\ bow_fam(ranked[i].row.Bow) = LowerBow(profile.preferred_bow)
                THEN 150000 ELSE 0

\* rows a and b are alike but for the bow
OnlyBowDiffers(a, b) == [a EXCEPT !.Bow = b.Bow] = b

\* the rank bias of the claim, in fifths
BiasOf(order, fam) ==
    CASE fam = order[1] -> 5 [] fam = order[2] -> 4 [] fam = order[3] -> 3
      [] fam = order[4] -> 2 [] fam = order[5] -> 1 [] OTHER -> 0

\* what the aerial and the drag-flick importance add to the score of row i
AerialTerm(i) == ranked[i].Score - score_row(ranked[i].row, [profile EXCEPT !.aerials = 0])

DragflickTerm(i) == ranked[i].Score - score_row(ranked[i].row, [profile EXCEPT !.dragflick = 0])

====
